---- MODULE Spec2Model ----
(***************************************************************************)
(* Model of server.py (Transit Routes Israel): the get_route orchestrator  *)
(* with its enrichment sub-path, the stop matcher find_stop_code_by_name   *)
(* and the feed parser parse_curlbus_realtime_text.                        *)
(*                                                                         *)
(* Python values are tagged records [t |-> <type>, v |-> <payload>] so     *)
(* that the isinstance tests and the AttributeError of a .get on a         *)
(* non-mapping can be modelled.  Python str values that the code inspects  *)
(* character by character are tuples of one-character strings.             *)
(***************************************************************************)
EXTENDS Integers, Sequences, FiniteSets, TLC

VARIABLES
    pc,                   \* position of get_route, or of the one function called
    api_key,              \* os.getenv("GOOGLE_API_KEY")
    max_routes,           \* int(os.getenv("MAX_ROUTES", "2"))
    google_routes,        \* what call_google_routes_api returned (top-level shape)
    origin_city,          \* what extract_city_from_geocoding returned
    routes,               \* len(routes) after routes[:max_routes]
    ri,                   \* routes consumed by "for route in routes"
    legs,                 \* len(legs) of the current route
    li,                   \* legs consumed by "for leg in legs"
    steps,                \* len(steps) of the current leg
    si,                   \* steps consumed by "for step in steps"
    is_first_transit_step,
    route_details,        \* list of TransitDetails of the current route
    routes_with_realtime, \* list of route_details lists
    response,             \* the RouteResponse returned, NoResponse before
    error,                \* the exception get_route raised, "None" before
    requests,             \* network requests issued so far, in order
    hist,                 \* history: facts about the upstream routes traversed
    args,                 \* arguments of the pure function under test
    ret                   \* its return value

vars == <<pc, api_key, max_routes, google_routes, origin_city, routes, ri, legs,
          li, steps, si, is_first_transit_step, route_details,
          routes_with_realtime, response, error, requests, hist, args, ret>>

orch_vars == <<pc, api_key, max_routes, google_routes, origin_city, routes, ri,
               legs, li, steps, si, is_first_transit_step, route_details,
               routes_with_realtime, response, error, requests, hist>>

-----------------------------------------------------------------------------
(* Python values *)

Dict(r) == [t |-> "dict", v |-> r]
List(q) == [t |-> "list", v |-> q]
Str(s) == [t |-> "str", v |-> s]
PyNone == [t |-> "NoneType"]
EmptyDict == [t |-> "dict", v |-> [k \in {} |-> [t |-> "NoneType"]]]
EmptyList == [t |-> "list", v |-> <<>>]

\* a key that a dict literal leaves out
Missing == [t |-> "missing"]

\* the dict with the keys of f that are not left out
MkDict(f) == Dict([k \in {j \in DOMAIN f : f[j] # Missing} |-> f[k]])

\* d.get(k, default) for a dict d
Get(d, k, default) == IF k \in DOMAIN d.v THEN d.v[k] ELSE default

\* truthiness of a Python value ("if x:", "if not x:")
Truthy(x) ==
    CASE x.t = "NoneType" -> FALSE
      [] x.t = "str" -> Len(x.v) > 0
      [] x.t = "list" -> Len(x.v) > 0
      [] x.t = "dict" -> DOMAIN x.v # {}
      [] OTHER -> TRUE

-----------------------------------------------------------------------------
(* str methods, on tuples of one-character strings *)

LowerChar(c) ==
    CASE c = "A" -> "a"
      [] c = "B" -> "b"
      [] c = "N" -> "n"
      [] c = "O" -> "o"
      [] c = "W" -> "w"
      [] c = "M" -> "m"
      [] c = "I" -> "i"
      [] OTHER -> c

\* s.lower()
Lower(s) == [i \in 1..Len(s) |-> LowerChar(s[i])]

IsSpace(c) == c = " "

RECURSIVE LStrip(_)
LStrip(s) == IF s # <<>> /\ IsSpace(Head(s)) THEN LStrip(Tail(s)) ELSE s

RECURSIVE RStrip(_)
RStrip(s) ==
    IF s # <<>> /\ IsSpace(s[Len(s)]) THEN RStrip(SubSeq(s, 1, Len(s) - 1)) ELSE s

\* s.strip()
Strip(s) == RStrip(LStrip(s))

\* "sub in s" for two str values
In(sub, s) ==
    \E i \in 1..(Len(s) + 1) :
        /\ i + Len(sub) - 1 <= Len(s)
        /\ SubSeq(s, i, i + Len(sub) - 1) = sub

\* str(x) for x a str or None
PyStr(x) == IF x.t = "NoneType" THEN <<"N", "o", "n", "e">> ELSE x.v

-----------------------------------------------------------------------------
(* find_stop_code_by_name, server.py 399-417 *)

\* stop.get('name') and <test on stop['name']>
Tier1(stop, q) ==
    /\ Truthy(Get(stop, "name", PyNone))
    /\ Lower(Strip(stop.v["name"].v)) = q

Tier2(stop, q) ==
    /\ Truthy(Get(stop, "name", PyNone))
    /\ In(q, Lower(stop.v["name"].v))

Tier3(stop, q) ==
    /\ Truthy(Get(stop, "name", PyNone))
    /\ In(Lower(stop.v["name"].v), q)

\* index of the first stop of the list that passes tier k, 0 if none does
FirstMatch(items, q, k) ==
    LET Pass(i) == CASE k = 1 -> Tier1(items[i], q)
                     [] k = 2 -> Tier2(items[i], q)
                     [] OTHER -> Tier3(items[i], q)
        hits == {i \in 1..Len(items) : Pass(i)}
    IN IF hits = {} THEN 0 ELSE CHOOSE i \in hits : \A j \in hits : i <= j

\* stop.get('code') without str(): None for a record without the key
CodeOfAbsent(stop) == Get(stop, "code", PyNone)

\* str(stop.get('code'))
CodeOf(stop) == Str(PyStr(Get(stop, "code", PyNone)))

find_stop_code_by_name(stops, station_name) ==
    IF stops.t # "list" THEN PyNone
    ELSE LET q == Lower(Strip(station_name))
             m1 == FirstMatch(stops.v, q, 1)
             m2 == FirstMatch(stops.v, q, 2)
             m3 == FirstMatch(stops.v, q, 3)
         IN IF m1 # 0 THEN CodeOf(stops.v[m1])
            ELSE IF m2 # 0 THEN CodeOf(stops.v[m2])
            ELSE IF m3 # 0 THEN CodeOf(stops.v[m3])
            ELSE PyNone

-----------------------------------------------------------------------------
(* parse_curlbus_realtime_text, server.py 307-359.                          *)
(* text_content is modelled after split('\n'): a sequence of lines.  The    *)
(* box-drawing delimiter U+2502 is written "|".                             *)

Bar == "|"
IsDigit(c) == c \in {"0", "1", "2", "3", "4", "5", "6", "7", "8", "9"}

\* number of consecutive characters of s from position p on that satisfy \s
RECURSIVE SpaceRun(_, _)
SpaceRun(s, p) == IF p <= Len(s) /\ IsSpace(s[p]) THEN 1 + SpaceRun(s, p + 1) ELSE 0

\* number of consecutive characters of s from position p on that satisfy \d
RECURSIVE DigitRun(_, _)
DigitRun(s, p) == IF p <= Len(s) /\ IsDigit(s[p]) THEN 1 + DigitRun(s, p + 1) ELSE 0

\* Whether \s*(.+?)\s*| repeated for cells k..4 can match at position p (just
\* after a delimiter): a cell ends at any later delimiter that leaves it at
\* least one character
RECURSIVE CanMatch(_, _, _)
CanMatch(s, p, k) ==
    \/ k > 4
    \/ \E q \in (p + 1)..Len(s) : s[q] = Bar /\ CanMatch(s, q + 1, k + 1)

\* The groups of \s*(.+?)\s*| repeated for cells k..4, matched at position p
\* with the regex engine's preferences: \s* takes as many as it can, (.+?) as
\* few as it can.  Returns the sequence of the groups followed by the "end"
\* marker, or <<>> when the rest of the pattern cannot match from p.
RECURSIVE MatchCells(_, _, _)
MatchCells(s, p, k) ==
    IF k > 4 THEN <<"end">>
    ELSE LET run == SpaceRun(s, p)
             \* <<n0, g>>: n0 spaces skipped, then a group of g characters,
             \* then the rest of the spaces, then the delimiter
             Ok(n0, g) ==
                 LET e == p + n0 + g
                     q == e + SpaceRun(s, e)
                 IN /\ q <= Len(s)
                    /\ s[q] = Bar
                    /\ CanMatch(s, q + 1, k + 1)
             cands == {c \in (0..run) \X (1..Len(s)) : Ok(c[1], c[2])}
         IN IF cands = {} THEN <<>>
            ELSE LET best == CHOOSE c \in cands : \A d \in cands :
                                 \/ c[1] > d[1]
                                 \/ c[1] = d[1] /\ c[2] <= d[2]
                     e == p + best[1] + best[2]
                     q == e + SpaceRun(s, e)
                 IN <<SubSeq(s, p + best[1], e - 1)>> \o MatchCells(s, q + 1, k + 1)

\* re.search of the table-row pattern in a line: the groups of the leftmost
\* match (followed by the "end" marker), or <<>> when the line has no match
TableMatch(line) ==
    LET starts == {p \in 1..Len(line) : line[p] = Bar /\ CanMatch(line, p + 1, 1)}
    IN IF starts = {} THEN <<>>
       ELSE MatchCells(line, (CHOOSE p \in starts : \A r \in starts : p <= r) + 1, 1)


\* the str of a digit run followed by " min": f"{minutes} min"
MinText(digits) == digits \o <<" ", "m", "i", "n">>

\* re.search(r'(\d+)m', s): the digits of the leftmost match, <<>> if none
SearchDigitsM(s) ==
    LET hits == {p \in 1..Len(s) :
                     /\ IsDigit(s[p])
                     /\ p + DigitRun(s, p) <= Len(s)
                     /\ s[p + DigitRun(s, p)] = "m"}
    IN IF hits = {} THEN <<>>
       ELSE LET p == CHOOSE h \in hits : \A r \in hits : h <= r
            IN SubSeq(s, p, p + DigitRun(s, p) - 1)

\* end (exclusive) of a match of \d+\s*m(?:in)? that starts at p, 0 if none
MinutesEnd(s, p) ==
    LET d == DigitRun(s, p)
        m == p + d + SpaceRun(s, p + d)
    IN IF d = 0 \/ m > Len(s) \/ s[m] # "m" THEN 0
       ELSE IF m + 2 <= Len(s) /\ s[m + 1] = "i" /\ s[m + 2] = "n" THEN m + 3
       ELSE m + 1

\* re.findall(r'(\d+)\s*m(?:in)?', s) scanning from position p
RECURSIVE FindMinutes(_, _)
FindMinutes(s, p) ==
    IF p > Len(s) THEN <<>>
    ELSE IF MinutesEnd(s, p) = 0 THEN FindMinutes(s, p + 1)
    ELSE <<SubSeq(s, p, p + DigitRun(s, p) - 1)>> \o FindMinutes(s, MinutesEnd(s, p))

\* end (exclusive) of a match of \d{1,2}:\d{2} that starts at p, 0 if none
ClockEnd(s, p) ==
    LET Rest(c) == /\ c + 2 <= Len(s)
                   /\ s[c] = ":"
                   /\ IsDigit(s[c + 1])
                   /\ IsDigit(s[c + 2])
    IN IF p > Len(s) \/ ~IsDigit(s[p]) THEN 0
       ELSE IF p + 1 <= Len(s) /\ IsDigit(s[p + 1]) /\ Rest(p + 2) THEN p + 5
       ELSE IF Rest(p + 1) THEN p + 4
       ELSE 0

\* re.findall(r'(\d{1,2}:\d{2})', s) scanning from position p
RECURSIVE FindClock(_, _)
FindClock(s, p) ==
    IF p > Len(s) THEN <<>>
    ELSE IF ClockEnd(s, p) = 0 THEN FindClock(s, p + 1)
    ELSE <<SubSeq(s, p, ClockEnd(s, p) - 1)>> \o FindClock(s, ClockEnd(s, p))

\* s.split(',')
RECURSIVE SplitComma(_)
SplitComma(s) ==
    LET commas == {i \in 1..Len(s) : s[i] = ","}
    IN IF commas = {} THEN <<s>>
       ELSE LET c == CHOOSE i \in commas : \A j \in commas : i <= j
            IN <<SubSeq(s, 1, c - 1)>> \o SplitComma(SubSeq(s, c + 1, Len(s)))

Now == <<"n", "o", "w">>

\* f"{minutes} min" for each of a list of digit strings
MinTexts(ds) == [i \in 1..Len(ds) |-> MinText(ds[i])]

\* lines 340-345: what one comma-separated part appends, given the minutes
\* matches of its lower-cased text
PartBranch(part, minute_matches) ==
    IF In(Now, Lower(part)) THEN <<Now>>
    ELSE IF minute_matches # <<>> THEN MinTexts(minute_matches)
    ELSE <<>>

PartArrivals(part) == PartBranch(part, FindMinutes(Lower(part), 1))

RECURSIVE PartsArrivals(_)
PartsArrivals(parts) ==
    IF parts = <<>> THEN <<>>
    ELSE PartArrivals(Strip(Head(parts))) \o PartsArrivals(Tail(parts))

\* lines 323-345 with the clock test before the minutes test
CellBranchClockFirst(time_cell, minute_match, minute_matches, time_matches) ==
    IF time_cell = <<>> \/ time_cell = <<Bar>> THEN <<>>
    ELSE IF In(Now, Lower(time_cell))
        THEN <<Now>> \o (IF minute_match # <<>> THEN <<MinText(minute_match)>> ELSE <<>>)
    ELSE IF time_matches # <<>> THEN time_matches
    ELSE IF minute_matches # <<>> THEN MinTexts(minute_matches)
    ELSE IF In(<<",">>, time_cell) THEN PartsArrivals(SplitComma(time_cell))
    ELSE <<>>

\* lines 323-345: the branch taken for a time cell, given the match of
\* (\d+)m, the minutes matches of its lower-cased text and its clock matches
CellBranch(time_cell, minute_match, minute_matches, time_matches) ==
    IF time_cell = <<>> \/ time_cell = <<Bar>> THEN <<>>
    ELSE IF In(Now, Lower(time_cell))
        THEN <<Now>> \o (IF minute_match # <<>> THEN <<MinText(minute_match)>> ELSE <<>>)
    ELSE IF minute_matches # <<>> THEN MinTexts(minute_matches)
    ELSE IF time_matches # <<>> THEN time_matches
    ELSE IF In(<<",">>, time_cell) THEN PartsArrivals(SplitComma(time_cell))
    ELSE <<>>

\* lines 323-345: what the time cell of a row of the filtered route appends
CellArrivals(time_cell) ==
    CellBranch(time_cell, SearchDigitsM(time_cell),
               FindMinutes(Lower(time_cell), 1), FindClock(time_cell, 1))

\* a row of any route appends what its time cell gives
RowArrivalsUnfiltered(m, route_number) ==
    IF m = <<>> THEN <<>>
    ELSE CellArrivals(Strip(m[4]))

\* lines 317-321: what a line appends, given the match of the row pattern
RowArrivals(m, route_number) ==
    IF m = <<>> THEN <<>>
    ELSE IF Strip(m[1]) # route_number THEN <<>>
    ELSE CellArrivals(Strip(m[4]))

\* lines 316-345: what one line appends to arrivals
LineArrivals(line, route_number) == RowArrivals(TableMatch(line), route_number)

\* lines 313-345: arrivals after the loop over lines
RECURSIVE Emitted(_, _)
Emitted(lines, route_number) ==
    IF lines = <<>> THEN <<>>
    ELSE LineArrivals(Head(lines), route_number) \o Emitted(Tail(lines), route_number)

\* lines 347-352: unique_arrivals
RECURSIVE Unique(_, _)
Unique(arrivals, seen) ==
    IF arrivals = <<>> THEN <<>>
    ELSE IF Head(arrivals) \in seen THEN Unique(Tail(arrivals), seen)
    ELSE <<Head(arrivals)>> \o Unique(Tail(arrivals), seen \cup {Head(arrivals)})

MaxArrivals == 5

\* s[:n]
Take(s, n) == SubSeq(s, 1, IF Len(s) < n THEN Len(s) ELSE n)

\* arrivals cut to five before the duplicates are removed
FinalArrivalsCutFirst(arrivals) == Unique(Take(arrivals, MaxArrivals), {})

\* line 354: unique_arrivals[:5]
FinalArrivals(arrivals) == Take(Unique(arrivals, {}), MaxArrivals)

\* lines 356-359: the dict returned
Returned(final_arrivals) ==
    [arrivals |-> final_arrivals,
     next_arrival |-> IF final_arrivals # <<>> THEN Str(final_arrivals[1]) ELSE PyNone]

ParseResult(arrivals) == Returned(FinalArrivals(arrivals))

parse_curlbus_realtime_text(text_content, route_number) ==
    ParseResult(Emitted(text_content, route_number))

-----------------------------------------------------------------------------
(* Inputs of get_route: the environment and what the external services     *)
(* answer.  Each is a small set of Python values, named by kind.           *)

MaxUpstream == 3     \* routes in a directions response
MaxLegs == 2         \* legs in a route
MaxSteps == 2        \* steps in a leg
MaxTransit == 2      \* steps with "transitDetails" in a directions response

DefaultMaxRoutes == 2

ApiKeys == {PyNone, Str(<<>>), Str(<<"k">>)}
MaxRoutesEnv == {-1, 0, 1, DefaultMaxRoutes}

PlaceId == Str(<<"C", "h", "I", "J">>)
City == Str(<<"T", "A">>)
Locality == Str(<<"l", "o", "c", "a", "l", "i", "t", "y">>)
Route == Str(<<"5">>)

\* "geocodingResults" of a directions response, drawn when
\* extract_city_from_geocoding reads it
GeocodingResults ==
    {Missing,
     PyNone,
     Dict([origin |-> EmptyDict]),
     Dict([origin |-> Dict([placeId |-> PlaceId])])}

\* "routes" of a directions response; a list is given by its length, its
\* entries are drawn when "for route in routes" reads them
RoutesValues == {Missing, PyNone} \cup {[t |-> "list", n |-> n] : n \in 0..MaxUpstream}

\* response.json() of a successful directions call
GoogleRoutesPayloads ==
    {EmptyList} \cup
    {MkDict([routes |-> r]) : r \in RoutesValues}

HttpOutcomes == {"ok", "transport_error", "non_2xx"}

\* response.json() of a successful places call
PlacesData ==
    {EmptyList,
     EmptyDict,
     Dict([addressComponents |-> List(<<Dict([types |-> List(<<Str(<<"x">>)>>),
                                             longText |-> Str(<<"I", "L">>)])>>)]),
     Dict([addressComponents |-> List(<<Dict([types |-> List(<<Str(<<"x">>)>>),
                                             longText |-> Str(<<"I", "L">>)]),
                                        Dict([types |-> List(<<Locality>>),
                                              longText |-> City])>>)]),
     Dict([addressComponents |-> List(<<Dict([types |-> List(<<Locality>>)])>>)])}

\* GTFS registries a successful fetch_gtfs_stops returns
StopsData ==
    {EmptyList,
     Dict([detail |-> Str(<<"e">>)]),
     List(<<Dict([name |-> Str(<<"a", "b", " ">>), code |-> Str(<<"1">>)]),
            Dict([name |-> Str(<<"a">>), code |-> Str(<<"2">>)])>>)}

\* bodies of a successful feed response, after split('\n')
FeedTexts ==
    {<< <<"|", "5", "|", "x", "|", "y", "|", "1", "m", "|">>,
        <<"|", "5", "|", "x", "|", "y", "|", "N", "o", "w", "|">> >>}

\* what the external services do during one get_curlbus_data
EnrichOutcomes ==
    {[gtfs |-> g] : g \in {"timeout", "transport_error", "non_2xx"}}
    \cup {[gtfs |-> "ok", stops |-> s, feed |-> f] :
              s \in StopsData,
              f \in {"outer_timeout", "timeout", "transport_error", "non_2xx"}}
    \cup {[gtfs |-> "ok", stops |-> s, feed |-> "ok", text |-> x] :
              s \in StopsData, x \in FeedTexts}

\* str(e) of the exception a failed feed request raises; the text is not
\* inspected anywhere
ExcText(f) == "str(e)"

\* the "transitDetails" values of the steps of a directions response
TransitLine == Dict([agencies |-> List(<<Dict([name |-> Str(<<"E">>)])>>),
                     nameShort |-> Route])
StopDetails == Dict([departureStop |-> Dict([name |-> Str(<<"a", "b">>)]),
                     arrivalStop |-> Dict([name |-> Str(<<"b">>)])])

TransitDetailsValues ==
    {Dict([transitLine |-> TransitLine, stopDetails |-> StopDetails]),
     Str(<<"x">>),
     Dict([transitLine |-> PyNone, stopDetails |-> StopDetails]),
     Dict([transitLine |-> TransitLine, stopDetails |-> PyNone]),
     Dict([transitLine |-> Dict([agencies |-> List(<<Str(<<"E">>)>>),
                                 nameShort |-> Route]),
           stopDetails |-> StopDetails]),
     Dict([transitLine |-> Dict([nameShort |-> PyNone]),
           stopDetails |-> StopDetails])}

\* the entries of a steps list: a non-mapping, a step without transitDetails,
\* a step with transitDetails
StepValues ==
    {PyNone, EmptyDict} \cup {Dict([transitDetails |-> d]) : d \in TransitDetailsValues}

-----------------------------------------------------------------------------
(* extract_city_from_geocoding and get_city_from_place_id, server.py 136-192 *)

\* an exception on its way out of a try block
Raised(exc) == [t |-> "raise", exc |-> exc]

\* the except clause left out: the exception goes on to the caller
NotCaught(x) == x

\* "except Exception as e: ... return None", lines 153-155 and 190-192
Except(x) == IF x.t = "raise" THEN PyNone ELSE x

\* lines 139-147, the body of the try: the place_id looked up, PyNone when
\* the function returns None before any lookup
PlaceIdTry(payload, g) ==
    IF payload.t # "dict" THEN Raised("AttributeError")
    ELSE LET geocoding_results == IF g = Missing THEN EmptyDict ELSE g
         IN IF geocoding_results.t # "dict" THEN PyNone
            ELSE LET origin == Get(geocoding_results, "origin", EmptyDict)
                     place_id == IF origin.t = "dict"
                                     THEN Get(origin, "placeId", PyNone) ELSE PyNone
                 IN IF Truthy(place_id) THEN place_id ELSE PyNone

\* lines 138-147 with the except clause of line 153
PlaceIdOf(payload, g) == Except(PlaceIdTry(payload, g))

\* lines 183-188: the longText of the first component whose types hold
\* "locality"; a .get on a component that is no mapping raises
RECURSIVE FirstLocalityTry(_)
FirstLocalityTry(components) ==
    IF components = <<>> THEN PyNone
    ELSE IF Head(components).t # "dict" THEN Raised("AttributeError")
    ELSE LET types == Get(Head(components), "types", EmptyList)
         IN IF \E i \in 1..Len(types.v) : types.v[i] = Locality
                THEN Get(Head(components), "longText", Str(<<>>))
            ELSE FirstLocalityTry(Tail(components))

FirstLocality(components) == Except(FirstLocalityTry(components))

\* lines 177-188, the rest of the try once the key is read: how the request
\* ended and the data of a success
CityTry(outcome, data) ==
    IF outcome = "non_2xx" THEN Raised("HTTPStatusError")
    ELSE IF outcome = "bad_json" THEN Raised("JSONDecodeError")
    ELSE IF outcome # "ok" THEN Raised("ConnectError")
    ELSE IF data.t # "dict" THEN Raised("AttributeError")
    ELSE FirstLocalityTry(Get(data, "addressComponents", EmptyList).v)

\* lines 177-192, given how the request ended and the data of a success
get_city_from_place_id(outcome, data) == Except(CityTry(outcome, data))

\* lines 160-192 from the key on
CityOfPlace(key, place) ==
    Except(IF ~Truthy(key) THEN Raised("ValueError")
           ELSE CityTry(place.http, place.data))

\* lines 146-155, given what lines 139-144 gave
CityOfPlaceId(place_id, key, place) ==
    Except(IF place_id.t = "raise" THEN place_id
           ELSE IF place_id = PyNone THEN PyNone
           ELSE CityOfPlace(key, place))

\* extract_city_from_geocoding, lines 136-155, of a payload with the
\* geocodingResults g, given the key and what the places request does
extract_city_from_geocoding(payload, g, key, place) ==
    CityOfPlaceId(PlaceIdTry(payload, g), key, place)

-----------------------------------------------------------------------------
(* get_curlbus_data and what it awaits, server.py 257-304, 420-428 *)

\* find_stop_code_from_gtfs, lines 420-428: fetch_gtfs_stops raising, and
\* station_name.strip() on a non-str, end in the except clause
find_stop_code_from_gtfs(o, station_name) ==
    IF o.gtfs # "ok" THEN PyNone
    ELSE IF ~Truthy(o.stops) THEN PyNone
    ELSE IF o.stops.t = "list" /\ station_name.t # "str" THEN PyNone
    ELSE find_stop_code_by_name(o.stops, station_name.v)

\* lines 303-304
Success(realtime_info) ==
    [arrivals |-> realtime_info.arrivals,
     next_arrival |-> realtime_info.next_arrival,
     status |-> "success"]

\* get_stop_realtime_data, lines 292-304, for a response that arrived; a
\* route_number that is no str equals no cell
get_stop_realtime_data(text_data, route_number) ==
    Success(IF route_number.t = "str"
                THEN parse_curlbus_realtime_text(text_data, route_number.v)
                ELSE ParseResult(<<>>))

NoRealtime(reason) == [status |-> "no_realtime", reason |-> reason]

\* lines 263-289 with the feed's failures reported under a status of their own
CurlbusResultErrorStatus(route_number, city, o, stop_code) ==
    IF ~Truthy(city)
        THEN [data |-> NoRealtime("No city information available"), reqs |-> <<>>]
    ELSE IF o.gtfs = "timeout"
        THEN [data |-> NoRealtime("curlbus timeout"), reqs |-> <<"gtfs">>]
    ELSE IF ~Truthy(stop_code)
        THEN [data |-> NoRealtime("Stop not found in GTFS data"), reqs |-> <<"gtfs">>]
    ELSE IF o.feed = "outer_timeout"
        THEN [data |-> NoRealtime("curlbus timeout"), reqs |-> <<"gtfs", "feed">>]
    ELSE IF o.feed # "ok"
        THEN [data |-> [status |-> "error", reason |-> ExcText(o.feed)],
              reqs |-> <<"gtfs", "feed">>]
    ELSE [data |-> get_stop_realtime_data(o.text, route_number),
          reqs |-> <<"gtfs", "feed">>]

\* lines 265-289 without the test of line 263: the registry is asked for
\* the stops of no city
CurlbusResultCityUntested(route_number, city, o, stop_code) ==
    IF o.gtfs = "timeout"
        THEN [data |-> NoRealtime("curlbus timeout"), reqs |-> <<"gtfs">>]
    ELSE IF ~Truthy(stop_code)
        THEN [data |-> NoRealtime("Stop not found in GTFS data"), reqs |-> <<"gtfs">>]
    ELSE IF o.feed = "outer_timeout"
        THEN [data |-> NoRealtime("curlbus timeout"), reqs |-> <<"gtfs", "feed">>]
    ELSE IF o.feed # "ok"
        THEN [data |-> NoRealtime(ExcText(o.feed)), reqs |-> <<"gtfs", "feed">>]
    ELSE [data |-> get_stop_realtime_data(o.text, route_number),
          reqs |-> <<"gtfs", "feed">>]

\* lines 263-289, given what find_stop_code_from_gtfs returned: the dict
\* returned and the requests issued, in order.  The reason of line 275 is
\* written without the stop name that ends it.
CurlbusResult(route_number, city, o, stop_code) ==
    IF ~Truthy(city)
        THEN [data |-> NoRealtime("No city information available"), reqs |-> <<>>]
    ELSE IF o.gtfs = "timeout"
        THEN [data |-> NoRealtime("curlbus timeout"), reqs |-> <<"gtfs">>]
    ELSE IF ~Truthy(stop_code)
        THEN [data |-> NoRealtime("Stop not found in GTFS data"), reqs |-> <<"gtfs">>]
    ELSE IF o.feed = "outer_timeout"
        THEN [data |-> NoRealtime("curlbus timeout"), reqs |-> <<"gtfs", "feed">>]
    ELSE IF o.feed # "ok"
        THEN [data |-> NoRealtime(ExcText(o.feed)), reqs |-> <<"gtfs", "feed">>]
    ELSE [data |-> get_stop_realtime_data(o.text, route_number),
          reqs |-> <<"gtfs", "feed">>]

get_curlbus_data(route_number, departure_stop_info, city, o) ==
    CurlbusResult(route_number, city, o,
                  find_stop_code_from_gtfs(
                      o, Get(departure_stop_info, "name", Str(<<>>))))

-----------------------------------------------------------------------------
(* process_transit_step, server.py 195-254.  The departure and arrival     *)
(* times (lines 212-239) are left out of TransitDetails.                   *)

Raise(exc, curlbus) == [exc |-> exc, reqs |-> curlbus.reqs, curlbus |-> curlbus.data]

\* get_curlbus_data was not called
NotCalled == [data |-> PyNone, reqs |-> <<>>]

\* lines 246-254: TransitDetails(...) validates that the four fields are str
NewTransitDetails(operator, route_number, departure_stop, arrival_stop, curlbus) ==
    IF \E x \in {operator, route_number, departure_stop, arrival_stop} : x.t # "str"
        THEN Raise("ValidationError", curlbus)
    ELSE [exc |-> "None",
          reqs |-> curlbus.reqs,
          curlbus |-> curlbus.data,
          detail |-> [operator |-> operator.v,
                      route_number |-> route_number.v,
                      departure_stop |-> departure_stop.v,
                      arrival_stop |-> arrival_stop.v,
                      real_time_data |-> curlbus.data]]

\* lines 209-254, once the line and the two stops are extracted
BuildTransitDetails(operator, route_number, departure_stop_info, arrival_stop_info, city, get_realtime, o) ==
    NewTransitDetails(operator, route_number,
                      Get(departure_stop_info, "name", Str(<<>>)),
                      Get(arrival_stop_info, "name", Str(<<>>)),
                      IF get_realtime
                          THEN get_curlbus_data(route_number, departure_stop_info,
                                                city, o)
                          ELSE NotCalled)

\* lines 206-254, given the dicts of lines 198-199 and the list of line 202
ExtractStops(transit_line, stop_details, agencies, city, get_realtime, o) ==
    IF Truthy(agencies) /\ agencies.v[1].t # "dict" THEN Raise("AttributeError", NotCalled)
    ELSE IF stop_details.t # "dict" THEN Raise("AttributeError", NotCalled)
    ELSE IF Get(stop_details, "departureStop", EmptyDict).t # "dict"
        THEN Raise("AttributeError", NotCalled)
    ELSE IF Get(stop_details, "arrivalStop", EmptyDict).t # "dict"
        THEN Raise("AttributeError", NotCalled)
    ELSE BuildTransitDetails(
             IF Truthy(agencies) THEN Get(agencies.v[1], "name", Str(<<>>)) ELSE Str(<<>>),
             Get(transit_line, "nameShort", Str(<<>>)),
             Get(stop_details, "departureStop", EmptyDict),
             Get(stop_details, "arrivalStop", EmptyDict),
             city, get_realtime, o)

\* lines 198-254, given the dicts of lines 198-199
ExtractLine(transit_line, stop_details, city, get_realtime, o) ==
    IF transit_line.t # "dict" THEN Raise("AttributeError", NotCalled)
    ELSE ExtractStops(transit_line, stop_details,
                      Get(transit_line, "agencies", EmptyList), city, get_realtime, o)

process_transit_step(transit_details, city, get_realtime, o) ==
    IF transit_details.t # "dict" THEN Raise("AttributeError", NotCalled)
    ELSE ExtractLine(Get(transit_details, "transitLine", EmptyDict),
                     Get(transit_details, "stopDetails", EmptyDict),
                     city, get_realtime, o)

-----------------------------------------------------------------------------
(* get_route, server.py 35-101 *)

\* a list of the response tree, given by its length
ListOf(n) == [t |-> "list", n |-> n]

\* the entries of a routes list, by their "legs"
RouteValues ==
    {PyNone, EmptyDict, Dict([legs |-> PyNone])}
    \cup {Dict([legs |-> ListOf(n)]) : n \in 0..MaxLegs}

\* the entries of a legs list, by their "steps"
LegValues ==
    {PyNone, EmptyDict, Dict([steps |-> PyNone])}
    \cup {Dict([steps |-> ListOf(n)]) : n \in 0..MaxSteps}

\* the list left whole
SliceLenWhole(n, m) == n

\* len(routes[:max_routes]) for a list of n routes
SliceLen(n, m) ==
    IF m >= 0 THEN (IF m < n THEN m ELSE n)
    ELSE (IF n + m > 0 THEN n + m ELSE 0)

NoResponse == [t |-> "NoneType"]
RouteResponse(rs) == [routes |-> rs]

\* src: the upstream positions of the routes appended to routes_with_realtime;
\* zero: retained routes left with no TransitDetails; transit: calls of
\* process_transit_step; lookups: calls of get_curlbus_data; curlbus: what the
\* last of them returned; calls: for each call of process_transit_step the
\* route and the leg of the step and the get_realtime it was given
NoHist == [src |-> <<>>, zero |-> 0, transit |-> 0, lookups |-> 0, curlbus |-> PyNone, calls |-> <<>>]

Idle ==
    /\ google_routes = PyNone
    /\ origin_city = PyNone
    /\ routes = 0
    /\ ri = 0
    /\ legs = 0
    /\ li = 0
    /\ steps = 0
    /\ si = 0
    /\ is_first_transit_step = TRUE
    /\ route_details = <<>>
    /\ routes_with_realtime = <<>>
    /\ response = NoResponse
    /\ error = "None"
    /\ requests = <<>>
    /\ hist = NoHist

Init ==
    /\ pc = "call_google_routes_api"
    /\ api_key \in ApiKeys
    /\ max_routes \in MaxRoutesEnv
    /\ Idle
    /\ args = <<>>
    /\ ret = PyNone

\* line 39 with a failed directions call answered by an empty RouteResponse
CallGoogleRoutesApiSwallowed ==
    /\ pc = "call_google_routes_api"
    /\ \/ /\ ~Truthy(api_key)
          /\ error' = "ValueError"
          /\ pc' = "raised"
          /\ UNCHANGED <<google_routes, requests, response>>
       \/ /\ Truthy(api_key)
          /\ requests' = Append(requests, "directions")
          /\ \E outcome \in HttpOutcomes :
                IF outcome = "ok"
                    THEN /\ google_routes' \in GoogleRoutesPayloads
                         /\ pc' = "extract_city_from_geocoding"
                         /\ UNCHANGED <<error, response>>
                    ELSE /\ response' = RouteResponse(<<>>)
                         /\ pc' = "returned"
                         /\ UNCHANGED <<google_routes, error>>
    /\ UNCHANGED <<api_key, max_routes, origin_city, routes, ri, legs, li, steps, si,
                   is_first_transit_step, route_details, routes_with_realtime,
                   hist, args, ret>>

\* call_google_routes_api with the key tested after the request is sent
CallGoogleRoutesApiLateKeyTest ==
    /\ pc = "call_google_routes_api"
    /\ requests' = Append(requests, "directions")
    /\ \/ /\ ~Truthy(api_key)
          /\ error' = "ValueError"
          /\ pc' = "raised"
          /\ UNCHANGED google_routes
       \/ /\ Truthy(api_key)
          /\ \E outcome \in HttpOutcomes :
                IF outcome = "ok"
                    THEN /\ google_routes' \in GoogleRoutesPayloads
                         /\ pc' = "extract_city_from_geocoding"
                         /\ UNCHANGED error
                    ELSE /\ error' = (IF outcome = "non_2xx"
                                          THEN "HTTPStatusError" ELSE "ConnectError")
                         /\ pc' = "raised"
                         /\ UNCHANGED google_routes
    /\ UNCHANGED <<api_key, max_routes, origin_city, routes, ri, legs, li, steps, si,
                   is_first_transit_step, route_details, routes_with_realtime,
                   response, hist, args, ret>>

\* line 39 and call_google_routes_api, lines 104-133
CallGoogleRoutesApi ==
    /\ pc = "call_google_routes_api"
    /\ \/ /\ ~Truthy(api_key)
          /\ error' = "ValueError"
          /\ pc' = "raised"
          /\ UNCHANGED <<google_routes, requests>>
       \/ /\ Truthy(api_key)
          /\ requests' = Append(requests, "directions")
          /\ \E outcome \in HttpOutcomes :
                IF outcome = "ok"
                    THEN /\ google_routes' \in GoogleRoutesPayloads
                         /\ pc' = "extract_city_from_geocoding"
                         /\ UNCHANGED error
                    ELSE /\ error' = (IF outcome = "non_2xx"
                                          THEN "HTTPStatusError" ELSE "ConnectError")
                         /\ pc' = "raised"
                         /\ UNCHANGED google_routes
    /\ UNCHANGED <<api_key, max_routes, origin_city, routes, ri, legs, li, steps, si,
                   is_first_transit_step, route_details, routes_with_realtime,
                   response, hist, args, ret>>

\* line 42 and extract_city_from_geocoding, lines 136-155, with the places
\* request of get_city_from_place_id, lines 158-192
ExtractCityFromGeocoding ==
    /\ pc = "extract_city_from_geocoding"
    /\ \E g \in GeocodingResults :
           IF PlaceIdOf(google_routes, g) = PyNone \/ ~Truthy(api_key)
               THEN /\ origin_city' = PyNone
                    /\ UNCHANGED requests
               ELSE /\ requests' = Append(requests, "places")
                    /\ \E outcome \in HttpOutcomes :
                           \E data \in (IF outcome = "ok" THEN PlacesData ELSE {PyNone}) :
                               origin_city' = get_city_from_place_id(outcome, data)
    /\ pc' = "check_shape"
    /\ UNCHANGED <<api_key, max_routes, google_routes, routes, ri, legs, li, steps, si,
                   is_first_transit_step, route_details, routes_with_realtime,
                   response, error, hist, args, ret>>

\* lines 45-60 without the isinstance test of line 48: line 52 raises
CheckShapeUnguarded ==
    /\ pc = "check_shape"
    /\ IF google_routes.t # "dict"
           THEN /\ error' = "AttributeError"
                /\ pc' = "raised"
                /\ UNCHANGED <<routes, response>>
           ELSE IF Get(google_routes, "routes", ListOf(0)).t # "list"
               THEN /\ response' = RouteResponse(<<>>)
                    /\ pc' = "returned"
                    /\ UNCHANGED <<routes, error>>
               ELSE /\ routes' = SliceLen(Get(google_routes, "routes", ListOf(0)).n,
                                          max_routes)
                    /\ pc' = "for_route"
                    /\ UNCHANGED <<response, error>>
    /\ UNCHANGED <<api_key, max_routes, google_routes, origin_city, ri, legs, li,
                   steps, si, is_first_transit_step, route_details,
                   routes_with_realtime, requests, hist, args, ret>>

\* lines 45-60
CheckShape ==
    /\ pc = "check_shape"
    /\ IF google_routes.t # "dict"
           THEN /\ response' = RouteResponse(<<>>)
                /\ pc' = "returned"
                /\ UNCHANGED routes
           ELSE IF Get(google_routes, "routes", ListOf(0)).t # "list"
               THEN /\ response' = RouteResponse(<<>>)
                    /\ pc' = "returned"
                    /\ UNCHANGED routes
               ELSE /\ routes' = SliceLen(Get(google_routes, "routes", ListOf(0)).n,
                                          max_routes)
                    /\ pc' = "for_route"
                    /\ UNCHANGED response
    /\ UNCHANGED <<api_key, max_routes, google_routes, origin_city, ri, legs, li,
                   steps, si, is_first_transit_step, route_details,
                   routes_with_realtime, error, requests, hist, args, ret>>

\* lines 62-72: the next route of the loop, or line 101 after the last one
ForRoute ==
    /\ pc = "for_route"
    /\ IF ri = routes
           THEN /\ response' = RouteResponse(routes_with_realtime)
                /\ pc' = "returned"
                /\ UNCHANGED <<ri, legs, li, route_details, hist>>
           ELSE /\ \E route \in RouteValues :
                       IF route.t # "dict" \/ Get(route, "legs", ListOf(0)).t # "list"
                           THEN /\ ri' = ri + 1
                                /\ hist' = [hist EXCEPT !.zero = @ + 1]
                                /\ pc' = "for_route"
                                /\ UNCHANGED <<legs, li>>
                           ELSE /\ legs' = Get(route, "legs", ListOf(0)).n
                                /\ li' = 0
                                /\ pc' = "for_leg"
                                /\ UNCHANGED <<ri, hist>>
                /\ route_details' = <<>>
                /\ UNCHANGED response
    /\ UNCHANGED <<api_key, max_routes, google_routes, origin_city, routes, steps, si,
                   is_first_transit_step, routes_with_realtime, error, requests,
                   args, ret>>

\* lines 74-99 without the test of line 98: route_details is always appended
ForLegAlwaysAppend ==
    /\ pc = "for_leg"
    /\ IF li = legs
           THEN /\ routes_with_realtime' = Append(routes_with_realtime, route_details)
                /\ hist' = IF route_details # <<>>
                               THEN [hist EXCEPT !.src = Append(@, ri + 1)]
                               ELSE [hist EXCEPT !.zero = @ + 1]
                /\ ri' = ri + 1
                /\ pc' = "for_route"
                /\ UNCHANGED <<li, steps, si, is_first_transit_step>>
           ELSE /\ \E leg \in LegValues :
                       IF leg.t # "dict" \/ Get(leg, "steps", ListOf(0)).t # "list"
                           THEN /\ li' = li + 1
                                /\ pc' = "for_leg"
                                /\ UNCHANGED <<steps, si, is_first_transit_step>>
                           ELSE /\ steps' = Get(leg, "steps", ListOf(0)).n
                                /\ si' = 0
                                /\ is_first_transit_step' = TRUE
                                /\ pc' = "for_step"
                                /\ UNCHANGED li
                /\ UNCHANGED <<ri, routes_with_realtime, hist>>
    /\ UNCHANGED <<api_key, max_routes, google_routes, origin_city, routes, legs,
                   route_details, response, error, requests, args, ret>>

\* lines 74-99 without the assignment of line 84: the flag is set once,
\* before the first route
ForLegFlagSetOnce ==
    /\ pc = "for_leg"
    /\ IF li = legs
           THEN /\ IF route_details # <<>>
                       THEN /\ routes_with_realtime' =
                                   Append(routes_with_realtime, route_details)
                            /\ hist' = [hist EXCEPT !.src = Append(@, ri + 1)]
                       ELSE /\ hist' = [hist EXCEPT !.zero = @ + 1]
                            /\ UNCHANGED routes_with_realtime
                /\ ri' = ri + 1
                /\ pc' = "for_route"
                /\ UNCHANGED <<li, steps, si, is_first_transit_step>>
           ELSE /\ \E leg \in LegValues :
                       IF leg.t # "dict" \/ Get(leg, "steps", ListOf(0)).t # "list"
                           THEN /\ li' = li + 1
                                /\ pc' = "for_leg"
                                /\ UNCHANGED <<steps, si>>
                           ELSE /\ steps' = Get(leg, "steps", ListOf(0)).n
                                /\ si' = 0
                                /\ pc' = "for_step"
                                /\ UNCHANGED li
                /\ UNCHANGED <<ri, routes_with_realtime, hist, is_first_transit_step>>
    /\ UNCHANGED <<api_key, max_routes, google_routes, origin_city, routes, legs,
                   route_details, response, error, requests, args, ret>>

\* lines 74-84: the next leg of the loop, or lines 98-99 after the last one
ForLeg ==
    /\ pc = "for_leg"
    /\ IF li = legs
           THEN /\ IF route_details # <<>>
                       THEN /\ routes_with_realtime' =
                                   Append(routes_with_realtime, route_details)
                            /\ hist' = [hist EXCEPT !.src = Append(@, ri + 1)]
                       ELSE /\ hist' = [hist EXCEPT !.zero = @ + 1]
                            /\ UNCHANGED routes_with_realtime
                /\ ri' = ri + 1
                /\ pc' = "for_route"
                /\ UNCHANGED <<li, steps, si, is_first_transit_step>>
           ELSE /\ \E leg \in LegValues :
                       IF leg.t # "dict" \/ Get(leg, "steps", ListOf(0)).t # "list"
                           THEN /\ li' = li + 1
                                /\ pc' = "for_leg"
                                /\ UNCHANGED <<steps, si, is_first_transit_step>>
                           ELSE /\ steps' = Get(leg, "steps", ListOf(0)).n
                                /\ si' = 0
                                /\ is_first_transit_step' = TRUE
                                /\ pc' = "for_step"
                                /\ UNCHANGED li
                /\ UNCHANGED <<ri, routes_with_realtime, hist>>
    /\ UNCHANGED <<api_key, max_routes, google_routes, origin_city, routes, legs,
                   route_details, response, error, requests, args, ret>>

\* the outcomes the external services can have for one transit step: none
\* is drawn when process_transit_step issues no request
OutcomesFor(get_realtime) ==
    IF get_realtime /\ Truthy(origin_city) THEN EnrichOutcomes
    ELSE {[gtfs |-> "transport_error"]}

\* lines 94-96, given what process_transit_step did
AfterTransitStep(get_realtime, transit_detail) ==
    /\ requests' = requests \o transit_detail.reqs
    /\ hist' = IF get_realtime /\ transit_detail.exc # "AttributeError"
                   THEN [hist EXCEPT !.transit = @ + 1,
                                     !.lookups = @ + 1,
                                     !.curlbus = transit_detail.curlbus,
                                     !.calls = Append(@, <<ri + 1, li + 1, get_realtime>>)]
                   ELSE [hist EXCEPT !.transit = @ + 1,
                                     !.calls = Append(@, <<ri + 1, li + 1, get_realtime>>)]
    /\ IF transit_detail.exc # "None"
           THEN /\ error' = transit_detail.exc
                /\ pc' = "raised"
                /\ UNCHANGED <<si, is_first_transit_step, route_details>>
           ELSE /\ route_details' = Append(route_details, transit_detail.detail)
                /\ is_first_transit_step' = FALSE
                /\ si' = si + 1
                /\ pc' = "for_step"
                /\ UNCHANGED error

\* lines 90-96, for a step that has "transitDetails"
TransitStep(step) ==
    \E o \in OutcomesFor(is_first_transit_step) :
        AfterTransitStep(is_first_transit_step,
                         process_transit_step(step.v["transitDetails"], origin_city,
                                              is_first_transit_step, o))

\* lines 85-96: the next step of the loop, or back to the legs after the last
ForStep ==
    /\ pc = "for_step"
    /\ IF si = steps
           THEN /\ li' = li + 1
                /\ pc' = "for_leg"
                /\ UNCHANGED <<si, is_first_transit_step, route_details, error,
                               requests, hist>>
           ELSE /\ \E step \in StepValues :
                       IF step.t # "dict" \/ "transitDetails" \notin DOMAIN step.v
                           THEN /\ si' = si + 1
                                /\ pc' = "for_step"
                                /\ UNCHANGED <<is_first_transit_step, route_details,
                                               error, requests, hist>>
                           ELSE hist.transit < MaxTransit /\ TransitStep(step)
                /\ UNCHANGED li
    /\ UNCHANGED <<api_key, max_routes, google_routes, origin_city, routes, ri, legs,
                   steps, routes_with_realtime, response, args, ret>>

Next ==
    \/ CallGoogleRoutesApi
    \/ ExtractCityFromGeocoding
    \/ CheckShape
    \/ ForRoute
    \/ ForLeg
    \/ ForStep

Spec == Init /\ [][Next]_vars

-----------------------------------------------------------------------------
(* find_stop_code_by_name called on its own: a registry and a station name  *)
(* are drawn, the function runs, its value is kept in ret.                  *)

MaxStops == 3        \* records in a GTFS registry

\* the "name" of a registry record; Missing for a record without the key
StopNames == {Str(<<"a", "b", " ">>), Str(<<"A">>), Str(<<" ">>), Str(<<>>), Missing}

\* the code of the record at position i of a registry
CodeAt(i) == Str(<<<<"1", "2", "3", "4", "5", "6", "7", "8", "9">>[i]>>)

\* the "code" of the record at position i: the code of its position, or
\* Missing for a record without the key
StopCodes(i) == {CodeAt(i), Missing}

\* the registries: what isinstance(stops, list) rejects, and the lists of up
\* to MaxStops records
Registries ==
    {PyNone, Str(<<"a">>)}
    \cup UNION {{List([i \in 1..n |-> MkDict([name |-> names[i], code |-> codes[i]])]) :
                    names \in [1..n -> StopNames],
                    codes \in {c \in [1..n -> {CodeAt(i) : i \in 1..n} \cup {Missing}] :
                                  \A i \in 1..n : c[i] \in StopCodes(i)}} :
                n \in 0..MaxStops}

\* the station names asked for; the empty one is what get_curlbus_data
\* passes for a departure stop without a name (line 262)
StationNames ==
    {<<"a">>, <<"A", "b">>, <<" ", "b", " ">>, <<"x", "a", "b">>, <<"c">>, <<>>, <<" ">>}

InitStop ==
    /\ pc = "find_stop_code_by_name"
    /\ api_key = PyNone
    /\ max_routes = DefaultMaxRoutes
    /\ Idle
    /\ args \in [stops : Registries, station_name : StationNames]
    /\ ret = PyNone

FindStopCodeByName ==
    /\ pc = "find_stop_code_by_name"
    /\ ret' = find_stop_code_by_name(args.stops, args.station_name)
    /\ pc' = "found"
    /\ UNCHANGED <<api_key, max_routes, google_routes, origin_city, routes, ri, legs,
                   li, steps, si, is_first_transit_step, route_details,
                   routes_with_realtime, response, error, requests, hist, args>>

NextStop == FindStopCodeByName

SpecStop == InitStop /\ [][NextStop]_vars

-----------------------------------------------------------------------------
(* parse_curlbus_realtime_text called on its own: a feed text and a route   *)
(* number are drawn, the function runs, its value is kept in ret.           *)

MaxLines == 3        \* lines in a feed text

\* a table row of the feed: route, two cells, the time cell
Row(route, time_cell) ==
    <<Bar>> \o route \o <<Bar, "x", Bar, "y", Bar>> \o time_cell \o <<Bar>>

\* the lines of a feed text: rows of route 5 whose time cells emit two new
\* values, a repeated value, "now" with a minutes value, a clock time; a row
\* of another route; a line that is no row; a row without its last
\* delimiter; a row of three cells; a row of five cells whose first is empty
FeedLines ==
    {Row(<<"5">>, <<"1", "m", " ", "2", "m">>),
     Row(<<" ", "5", " ">>, <<"3", " ", "m", "i", "n", "4", "m">>),
     Row(<<"5">>, <<"5", "m", "6", "m", "1", "m">>),
     Row(<<"5">>, <<"N", "o", "w", " ", "2", "m">>),
     Row(<<"5">>, <<"2", "m", "2", "m">>),
     Row(<<"5">>, <<"7", ":", "0", "5">>),
     Row(<<"6">>, <<"9", "m">>),
     <<"5", " ", "8", "m">>,
     <<Bar, "5", Bar, "x", Bar, "y", Bar, "8", "m">>,
     <<Bar, "5", Bar, "x", Bar, "8", "m", Bar>>,
     <<Bar>> \o Row(<<"5">>, <<"8", "m">>)}

InitParse ==
    /\ pc = "parse_curlbus_realtime_text"
    /\ api_key = PyNone
    /\ max_routes = DefaultMaxRoutes
    /\ Idle
    /\ args \in [text_content : UNION {[1..n -> FeedLines] : n \in 0..MaxLines},
                 route_number : {<<"5">>, <<"6">>}]
    /\ ret = PyNone

ParseCurlbusRealtimeText ==
    /\ pc = "parse_curlbus_realtime_text"
    /\ ret' = parse_curlbus_realtime_text(args.text_content, args.route_number)
    /\ pc' = "parsed"
    /\ UNCHANGED <<api_key, max_routes, google_routes, origin_city, routes, ri, legs,
                   li, steps, si, is_first_transit_step, route_details,
                   routes_with_realtime, response, error, requests, hist, args>>

NextParse == ParseCurlbusRealtimeText

SpecParse == InitParse /\ [][NextParse]_vars

-----------------------------------------------------------------------------
(* The time cell of a row of parse_curlbus_realtime_text: a row of the      *)
(* filtered route is built around a cell and the lines 313-345 run on it.   *)

MaxTokens == 3       \* pieces a time cell is put together from

\* the pieces of a time cell
CellTokens ==
    {<<"n", "o", "w">>, <<"N", "o", "w">>, <<"1", "m">>, <<"2", " ", "m", "i", "n">>,
     <<"3", "M">>, <<"7", ":", "0", "5">>, <<"1", "2", ":", "3", "0">>,
     <<",">>, <<" ">>, <<"4">>, <<"m">>}

RECURSIVE Concat(_)
Concat(ss) == IF ss = <<>> THEN <<>> ELSE Head(ss) \o Concat(Tail(ss))

\* the time cells: up to MaxTokens pieces in a row, and the cell a doubled
\* delimiter leaves
TimeCells ==
    {<<Bar>>} \cup UNION {{Concat(ts) : ts \in [1..n -> CellTokens]} : n \in 0..MaxTokens}

InitCell ==
    /\ pc = "time_cell"
    /\ api_key = PyNone
    /\ max_routes = DefaultMaxRoutes
    /\ Idle
    /\ args \in [time_cell : TimeCells]
    /\ ret = PyNone

ScanRow ==
    /\ pc = "time_cell"
    /\ ret' = Emitted(<<Row(Route.v, args.time_cell)>>, Route.v)
    /\ pc' = "scanned"
    /\ UNCHANGED <<api_key, max_routes, google_routes, origin_city, routes, ri, legs,
                   li, steps, si, is_first_transit_step, route_details,
                   routes_with_realtime, response, error, requests, hist, args>>

NextCell == ScanRow

SpecCell == InitCell /\ [][NextCell]_vars

-----------------------------------------------------------------------------
(* extract_city_from_geocoding called on its own: a directions payload, the *)
(* key and what the places request does are drawn.                          *)

\* "geocodingResults" values, with an origin that is no mapping and an
\* empty placeId besides those of GeocodingResults
GeocodingInputs ==
    GeocodingResults
    \cup {Dict([origin |-> PyNone]), Dict([origin |-> Dict([placeId |-> Str(<<>>)])])}

Country == Dict([types |-> List(<<Str(<<"c">>)>>), longText |-> Str(<<"I", "L">>)])
Town(text) == Dict([types |-> List(<<Locality>>), longText |-> text])

\* response.json() of a places call, with a component that is no mapping
\* before or after the locality and two localities besides PlacesData
PlacesInputs ==
    PlacesData
    \cup {Dict([addressComponents |-> List(<<PyNone, Town(City)>>)]),
          Dict([addressComponents |-> List(<<Town(City), PyNone>>)]),
          Dict([addressComponents |-> List(<<Country, Town(City), Town(Str(<<"H">>))>>)])}

\* what the places request does
PlacesOutcomes ==
    {[http |-> h, data |-> PyNone] : h \in {"transport_error", "non_2xx", "bad_json"}}
    \cup {[http |-> "ok", data |-> d] : d \in PlacesInputs}

InitCity ==
    /\ pc = "extract_city_from_geocoding"
    /\ api_key \in ApiKeys
    /\ max_routes = DefaultMaxRoutes
    /\ Idle
    /\ args \in [google_routes : {EmptyList, EmptyDict},
                 geocodingResults : GeocodingInputs,
                 place : PlacesOutcomes]
    /\ ret = PyNone

ExtractCity ==
    /\ pc = "extract_city_from_geocoding"
    /\ ret' = extract_city_from_geocoding(args.google_routes, args.geocodingResults,
                                          api_key, args.place)
    /\ pc' = "extracted"
    /\ UNCHANGED <<api_key, max_routes, google_routes, origin_city, routes, ri, legs,
                   li, steps, si, is_first_transit_step, route_details,
                   routes_with_realtime, response, error, requests, hist, args>>

NextCity == ExtractCity

SpecCity == InitCity /\ [][NextCity]_vars

-----------------------------------------------------------------------------
(* get_last_thursday_or_week_before, server.py 362-372, called on its own.  *)
(* A date is its proleptic Gregorian ordinal, as date.toordinal() gives it: *)
(* day 1 is 0001-01-01, a Monday.                                           *)

MaxDays == 72        \* days after FirstToday that datetime.now() may give

IsLeap(y) == y % 4 = 0 /\ (y % 100 # 0 \/ y % 400 = 0)

DaysInMonth(y, m) ==
    IF m = 2 THEN (IF IsLeap(y) THEN 29 ELSE 28)
    ELSE IF m \in {4, 6, 9, 11} THEN 30
    ELSE 31

\* days before January 1st of year y
DaysBeforeYear(y) == (y - 1) * 365 + (y - 1) \div 4 - (y - 1) \div 100 + (y - 1) \div 400

\* days of year y before the first of month m
RECURSIVE DaysBeforeMonth(_, _)
DaysBeforeMonth(y, m) ==
    IF m = 1 THEN 0 ELSE DaysBeforeMonth(y, m - 1) + DaysInMonth(y, m - 1)

\* the ordinal of a date
ToOrdinal(date) == DaysBeforeYear(date.y) + DaysBeforeMonth(date.y, date.m) + date.d

\* the date of an ordinal
FromOrdinal(n) ==
    LET y == CHOOSE k \in 1..9999 : DaysBeforeYear(k) < n /\ n <= DaysBeforeYear(k + 1)
        r == n - DaysBeforeYear(y)
        m == CHOOSE k \in 1..12 :
                 DaysBeforeMonth(y, k) < r /\ r <= DaysBeforeMonth(y, k) + DaysInMonth(y, k)
    IN [y |-> y, m |-> m, d |-> r - DaysBeforeMonth(y, m)]

\* datetime.weekday(): Monday is 0, Thursday is 3
Weekday(n) == (n + 6) % 7

DigitChar(k) == <<"0", "1", "2", "3", "4", "5", "6", "7", "8", "9">>[k + 1]

\* the decimal digits of k, zero-padded to w characters
RECURSIVE Padded(_, _)
Padded(k, w) == IF w = 0 THEN <<>> ELSE Padded(k \div 10, w - 1) \o <<DigitChar(k % 10)>>

\* line 372: strftime('%Y-%m-%d') of a date
Strftime(date) ==
    Padded(date.y, 4) \o <<"-">> \o Padded(date.m, 2) \o <<"-">> \o Padded(date.d, 2)

\* lines 366-370: the days subtracted from a day that is no Thursday
DaysToSubtract(current_day) ==
    IF current_day > 3 THEN current_day - 3 ELSE current_day + 4

\* lines 366-370 without the Thursday case, the test of line 369 widened
TargetDateNoThursdayCase(today, current_day) ==
    today - (IF current_day >= 3 THEN current_day - 3 ELSE current_day + 4)

\* lines 366-370: target_date, given today and its weekday
TargetDate(today, current_day) ==
    IF current_day = 3 THEN today - 7
    ELSE today - DaysToSubtract(current_day)

\* the function, given what datetime.now() gives
get_last_thursday_or_week_before(today) ==
    Str(Strftime(FromOrdinal(TargetDate(today, Weekday(today)))))

\* the first day datetime.now() is drawn from: the days that follow cross
\* the end of a year and a February 29th
FirstToday == ToOrdinal([y |-> 2023, m |-> 12, d |-> 25])

InitDate ==
    /\ pc = "get_last_thursday_or_week_before"
    /\ api_key = PyNone
    /\ max_routes = DefaultMaxRoutes
    /\ Idle
    /\ args \in [today : FirstToday..(FirstToday + MaxDays)]
    /\ ret = PyNone

GetLastThursdayOrWeekBefore ==
    /\ pc = "get_last_thursday_or_week_before"
    /\ ret' = get_last_thursday_or_week_before(args.today)
    /\ pc' = "dated"
    /\ UNCHANGED <<api_key, max_routes, google_routes, origin_city, routes, ri, legs,
                   li, steps, si, is_first_transit_step, route_details,
                   routes_with_realtime, response, error, requests, hist, args>>

NextDate == GetLastThursdayOrWeekBefore

SpecDate == InitDate /\ [][NextDate]_vars

-----------------------------------------------------------------------------
(* Properties of get_route, checked under Spec *)

\* len() of the "routes" list of the directions response, 0 when there is none
UpstreamLen ==
    IF google_routes.t = "dict" /\ Get(google_routes, "routes", ListOf(0)).t = "list"
        THEN Get(google_routes, "routes", ListOf(0)).n
        ELSE 0

\* the directions call succeeded and its payload holds a "routes" list
RoutesIsList ==
    /\ google_routes.t = "dict"
    /\ Get(google_routes, "routes", Missing).t = "list"

Min(a, b) == IF a < b THEN a ELSE b

\* positions of the TransitDetails of a route whose real_time_data is not None
WithRealtime(route) == {i \in 1..Len(route) : route[i].real_time_data # PyNone}

RECURSIVE SumOver(_, _)
SumOver(f, n) == IF n = 0 THEN 0 ELSE f[n] + SumOver(f, n - 1)

\* number of TransitDetails of a list of routes whose real_time_data is not None
LookupSegments(rs) ==
    SumOver([r \in 1..Len(rs) |-> Cardinality(WithRealtime(rs[r]))], Len(rs))

\* C1: in each route of the result returned by get_route at most one
\* TransitDetails has real_time_data other than None, and it is the first one
\* of the route; every later one, also of a later leg, has None.
C1_OneLookupPerRoute ==
    pc = "returned" =>
        \A r \in 1..Len(response.routes) : WithRealtime(response.routes[r]) \subseteq {1}

\* C2 as stated, for every integer M: the result has no route beyond its
\* M-th, each route of the result is built from one of the first M upstream
\* routes, and they come in upstream order.
C2_AtMostMaxRoutes ==
    pc = "returned" =>
        /\ Len(hist.src) = Len(response.routes)
        /\ \A i \in 1..Len(response.routes) : i <= max_routes
        /\ \A i \in 1..Len(hist.src) : hist.src[i] \in 1..max_routes
        /\ \A i, j \in 1..Len(hist.src) : i < j => hist.src[i] < hist.src[j]

\* C2, amended to M >= 0: the upstream list is cut to its first M routes
\* before the traversal, so no more than M routes are ever traversed, the
\* result has at most M routes, and each is built from one of the first M
\* upstream routes, in upstream order.
C2_TruncatedWhenNonNegative ==
    max_routes >= 0 =>
        /\ pc \in {"for_route", "for_leg", "for_step", "returned"} /\ RoutesIsList =>
               /\ routes = Min(max_routes, UpstreamLen)
               /\ ri <= routes
        /\ pc = "returned" =>
               /\ Len(response.routes) <= max_routes
               /\ Len(hist.src) = Len(response.routes)
               /\ \A i \in 1..Len(hist.src) : hist.src[i] \in 1..Min(max_routes, UpstreamLen)
               /\ \A i, j \in 1..Len(hist.src) : i < j => hist.src[i] < hist.src[j]

\* three upstream routes with M = 2 gave exactly the first two
C2_Witness ==
    /\ pc = "returned"
    /\ max_routes = 2
    /\ UpstreamLen = 3
    /\ hist.src = <<1, 2>>
    /\ Len(response.routes) = 2

\* the directions call succeeded and its payload is no mapping, has no
\* "routes" key, or has a "routes" that is no list
Malformed ==
    /\ google_routes # PyNone
    /\ \/ google_routes.t # "dict"
       \/ "routes" \notin DOMAIN google_routes.v
       \/ google_routes.v["routes"].t # "list"

\* C3: when the directions payload is no mapping, has no "routes" key or has
\* a "routes" that is no list, get_route raises nothing, neither in the
\* city extraction nor later, traverses no step, and what it returns is a
\* RouteResponse without routes.
C3_MalformedGivesEmpty ==
    Malformed =>
        /\ error = "None"
        /\ pc \in {"extract_city_from_geocoding", "check_shape", "for_route", "returned"}
        /\ pc = "returned" => response = RouteResponse(<<>>)

\* a payload that is a list was answered with an empty RouteResponse, after
\* the city extraction ran on it
C3_Witness ==
    /\ google_routes = EmptyList
    /\ pc = "returned"
    /\ response = RouteResponse(<<>>)

\* C4: once the directions response holds a "routes" list, get_route never
\* raises, whatever the shape of the routes, legs, steps and transit details.
C4_NeverRaises == RoutesIsList => pc # "raised"

\* what get_curlbus_data may return: status success without a reason, or
\* status no_realtime with one
WellFormedRealtime(d) ==
    /\ "status" \in DOMAIN d
    /\ d.status \in {"success", "no_realtime"}
    /\ "reason" \in DOMAIN d <=> d.status = "no_realtime"

\* C5: whatever the enrichment calls do, every call of get_curlbus_data
\* returns a record that has status success, or status no_realtime with a
\* reason (a reason exactly when no_realtime); and when get_route returns,
\* each of those records is the real_time_data of a TransitDetails of the
\* result, one per call.
C5_EnrichmentNeverAborts ==
    /\ hist.lookups > 0 => WellFormedRealtime(hist.curlbus)
    /\ pc = "returned" =>
           /\ LookupSegments(response.routes) = hist.lookups
           /\ \A r \in 1..Len(response.routes) :
                  \A i \in WithRealtime(response.routes[r]) :
                      WellFormedRealtime(response.routes[r][i].real_time_data)

\* a feed request failed and its TransitDetails is in the result, with the
\* no_realtime record
C5_Witness ==
    /\ pc = "returned"
    /\ \E r \in 1..Len(response.routes) :
           /\ response.routes[r][1].real_time_data.status = "no_realtime"
           /\ response.routes[r][1].real_time_data.reason = "str(e)"
           /\ "feed" \in {requests[k] : k \in 1..Len(requests)}

\* the directions request was issued and gave no payload
DirectionsFailed == requests # <<>> /\ google_routes = PyNone

\* C6: when the directions call fails, get_route raises that error, returns
\* no RouteResponse, and the directions request stays the only request.
C6_DirectionsFailurePropagates ==
    DirectionsFailed =>
        /\ pc = "raised"
        /\ error \in {"HTTPStatusError", "ConnectError"}
        /\ response = NoResponse
        /\ requests = <<"directions">>

C6_Witness ==
    /\ pc = "raised"
    /\ error = "HTTPStatusError"
    /\ requests = <<"directions">>

\* C7: when the API key is absent, get_route raises ValueError, returns
\* nothing, and no request has been issued when it is raised.
C7_NoKeyNoRequest ==
    (~Truthy(api_key) /\ pc # "call_google_routes_api") =>
        /\ pc = "raised"
        /\ error = "ValueError"
        /\ response = NoResponse
        /\ requests = <<>>

C7_Witness ==
    /\ api_key = PyNone
    /\ pc = "raised"
    /\ error = "ValueError"

\* C8: no list of routes_with_realtime, hence of the result, is ever empty;
\* a retained route that gives no TransitDetails is left out, so the result
\* has as many routes as were retained less those that gave none.
C8_NoEmptyRoute ==
    /\ \A r \in 1..Len(routes_with_realtime) : routes_with_realtime[r] # <<>>
    /\ pc = "returned" /\ RoutesIsList =>
           /\ response.routes = routes_with_realtime
           /\ Len(response.routes) = routes - hist.zero
           /\ hist.zero > 0 => Len(response.routes) < routes

\* of two retained routes, one gave no TransitDetails and the result has one
C8_Witness ==
    /\ pc = "returned"
    /\ routes = 2
    /\ hist.zero = 1
    /\ Len(response.routes) = 1

\* positions of the requests of a kind
RequestsOf(kind) == {i \in 1..Len(requests) : requests[i] = kind}

\* C15: the requests of one get_route come in the order: the directions
\* request first and once; then at most one places request, before any
\* other; then, for each call of get_curlbus_data in traversal order, one
\* GTFS request, followed at once by a feed request or by none.  The feed
\* request is there exactly when the stop code was resolved, and with no
\* origin city there is no GTFS and no feed request and the segment gets
\* the no-city record.
C15_RequestOrder ==
    /\ RequestsOf("directions") \subseteq {1}
    /\ requests # <<>> => requests[1] = "directions"
    /\ RequestsOf("places") \subseteq {2}
    /\ \A i \in RequestsOf("feed") : i > 1 /\ requests[i - 1] = "gtfs"
    /\ \A i \in 1..Len(requests) :
           requests[i] \in {"directions", "places", "gtfs", "feed"}
    /\ pc \in {"call_google_routes_api", "extract_city_from_geocoding"}
           => RequestsOf("gtfs") \cup RequestsOf("feed") = {}
    /\ pc \notin {"call_google_routes_api", "extract_city_from_geocoding"} =>
           IF Truthy(origin_city)
               THEN /\ Cardinality(RequestsOf("gtfs")) = hist.lookups
                    /\ hist.lookups > 0 =>
                           /\ hist.curlbus # NoRealtime("No city information available")
                           /\ hist.curlbus = NoRealtime("Stop not found in GTFS data")
                                  => requests[Len(requests)] = "gtfs"
                           /\ requests[Len(requests)] = "gtfs"
                                  => hist.curlbus \in
                                         {NoRealtime("Stop not found in GTFS data"),
                                          NoRealtime("curlbus timeout")}
               ELSE /\ RequestsOf("gtfs") \cup RequestsOf("feed") = {}
                    /\ hist.lookups > 0 =>
                           hist.curlbus = NoRealtime("No city information available")

\* two lookups after the places request: code resolved and feed asked, then
\* a lookup that ended at the registry
C15_Witness ==
    /\ pc = "returned"
    /\ requests = <<"directions", "places", "gtfs", "feed", "gtfs">>
    /\ hist.lookups = 2

RECURSIVE Flat(_)
Flat(rs) == IF rs = <<>> THEN <<>> ELSE rs[1] \o Flat(Tail(rs))

\* the TransitDetails built so far, in the order they were built: those of
\* the routes already appended, then those of the route being traversed
AllSegments ==
    Flat(routes_with_realtime)
        \o (IF pc \in {"for_leg", "for_step", "raised"} THEN route_details ELSE <<>>)

\* the legs, as pairs of route and leg position, of the first k calls of
\* process_transit_step
LegsOfCalls(k) == {<<hist.calls[j][1], hist.calls[j][2]>> : j \in 1..k}

-----------------------------------------------------------------------------
(* Properties of find_stop_code_by_name, checked under SpecStop *)

\* the name of a registry record, trimmed and lower-cased
TrimmedName(stop) == Lower(Strip(stop.v["name"].v))

\* the three tiers as C9 states them, on trimmed names
Equals(stop, q) == "name" \in DOMAIN stop.v /\ TrimmedName(stop) = q
Contains(stop, q) == "name" \in DOMAIN stop.v /\ In(q, TrimmedName(stop))
ContainedIn(stop, q) == "name" \in DOMAIN stop.v /\ In(TrimmedName(stop), q)

\* the least number of a non-empty set of numbers
Least(S) == CHOOSE i \in S : \A j \in S : i <= j

\* the code C9 states for a registry and a station name
ThreeTiers(stops, station_name) ==
    IF stops.t # "list" THEN PyNone
    ELSE LET q == Lower(Strip(station_name))
             idx == 1..Len(stops.v)
             t1 == {i \in idx : Equals(stops.v[i], q)}
             t2 == {i \in idx : Contains(stops.v[i], q)}
             t3 == {i \in idx : ContainedIn(stops.v[i], q)}
         IN IF t1 # {} THEN stops.v[Least(t1)].v["code"]
            ELSE IF t2 # {} THEN stops.v[Least(t2)].v["code"]
            ELSE IF t3 # {} THEN stops.v[Least(t3)].v["code"]
            ELSE PyNone

\* every record of the registry has a "code", and a "name" that is not empty
\* and not of spaces only if it has one
WithCodesAndNames(stops) ==
    stops.t = "list" =>
        \A i \in 1..Len(stops.v) :
            /\ "code" \in DOMAIN stops.v[i].v
            /\ "name" \in DOMAIN stops.v[i].v =>
                   \E j \in 1..Len(stops.v[i].v["name"].v) :
                       ~IsSpace(stops.v[i].v["name"].v[j])

\* C9: find_stop_code_by_name returns the code of the first record whose
\* trimmed, lower-cased name equals the trimmed, lower-cased query; else of
\* the first whose name contains it; else of the first whose name is
\* contained in it; else None, as for a registry that is no list.
\* It is stated for the registries whose records all have a code and no
\* empty or whitespace-only name.
C9_ThreeTiersTrimmed ==
    pc = "found" /\ WithCodesAndNames(args.stops)
        => ret = ThreeTiers(args.stops, args.station_name)

\* the name of a registry record, empty for a record without one
NameOf(stop) == IF "name" \in DOMAIN stop.v THEN stop.v["name"].v ELSE <<>>

\* a str of spaces only, the empty one included
Blank(s) == \A i \in 1..Len(s) : s[i] = " "

\* positions of the records of a registry with a non-empty name
Named(stops) == {i \in 1..Len(stops.v) : NameOf(stops.v[i]) # <<>>}

\* positions of the records whose name is not empty and is spaces only
BlankNamed(stops) == {i \in Named(stops) : Blank(NameOf(stops.v[i]))}

\* the record matches the query in the exact, the substring or the reverse
\* substring tier
MatchesSomeTier(stop, q) ==
    \/ Lower(Strip(NameOf(stop))) = Lower(Strip(q))
    \/ In(Lower(Strip(q)), Lower(NameOf(stop)))
    \/ In(Lower(NameOf(stop)), Lower(Strip(q)))

\* the string form of the "code" of a record: "None" without the key
CodeText(stop) ==
    IF "code" \in DOMAIN stop.v THEN stop.v["code"] ELSE Str(<<"N", "o", "n", "e">>)

\* what is returned is the string form of the code of a record with a
\* non-empty name that matches in one of the three tiers
ReturnsCodeOfMatch ==
    ret # PyNone =>
        \E i \in Named(args.stops) :
            /\ MatchesSomeTier(args.stops.v[i], args.station_name)
            /\ ret = CodeText(args.stops.v[i])

\* C17 as stated: a returned value is the string form of the code of a
\* matching record with a non-empty name, "None" for a record without
\* code; for an empty or whitespace-only query it is that of the first
\* record with a non-empty name.
C17_BlankQueryFirstNamed ==
    pc = "found" /\ args.stops.t = "list" =>
        /\ ReturnsCodeOfMatch
        /\ Blank(args.station_name) =>
               ret = IF Named(args.stops) # {}
                         THEN CodeText(args.stops.v[Least(Named(args.stops))])
                         ELSE PyNone

\* C17, amended: for an empty or whitespace-only query the first record
\* whose name is whitespace-only matches in the exact tier and its code is
\* returned; only when there is none is it the code of the first record
\* with a non-empty name, matched in the substring tier.  Otherwise as
\* stated.
C17_BlankQueryBlankNameFirst ==
    pc = "found" /\ args.stops.t = "list" =>
        /\ ReturnsCodeOfMatch
        /\ Blank(args.station_name) =>
               ret = IF BlankNamed(args.stops) # {}
                         THEN CodeText(args.stops.v[Least(BlankNamed(args.stops))])
                     ELSE IF Named(args.stops) # {}
                         THEN CodeText(args.stops.v[Least(Named(args.stops))])
                     ELSE PyNone

\* an empty query on a registry of a record without a name and a named
\* record without a code: "None" is returned
C17_Witness ==
    /\ pc = "found"
    /\ args.station_name = <<>>
    /\ args.stops = List(<<MkDict([code |-> CodeAt(1)]), MkDict([name |-> Str(<<"A">>)])>>)
    /\ ret = Str(<<"N", "o", "n", "e">>)

-----------------------------------------------------------------------------
(* Properties of parse_curlbus_realtime_text, checked under SpecParse *)

\* the values of a sequence
Range(s) == {s[i] : i \in 1..Len(s)}

\* position of the first occurrence of x in s
FirstPos(s, x) == Least({i \in 1..Len(s) : s[i] = x})

\* C10: the arrivals returned hold no value twice, only values emitted while
\* scanning the rows, in the order of their first emission and skipping none
\* that was emitted before the last one kept; they are 5 when more than 5
\* distinct values were emitted and all the distinct values otherwise;
\* next_arrival is the first of them, None when there is none.
C10_FirstFiveDistinct ==
    pc = "parsed" =>
        LET emitted == Emitted(args.text_content, args.route_number)
            arrivals == ret.arrivals
            n == Len(arrivals)
        IN /\ \A i, j \in 1..n : i < j => arrivals[i] # arrivals[j]
           /\ Range(arrivals) \subseteq Range(emitted)
           /\ \A i, j \in 1..n :
                  i < j => FirstPos(emitted, arrivals[i]) < FirstPos(emitted, arrivals[j])
           /\ \A x \in Range(emitted) :
                  (n > 0 /\ FirstPos(emitted, x) < FirstPos(emitted, arrivals[n]))
                      => x \in Range(arrivals)
           /\ n = Min(Cardinality(Range(emitted)), 5)
           /\ ret.next_arrival = IF n > 0 THEN Str(arrivals[1]) ELSE PyNone

\* seven values were emitted, a repeated one among the first five, and the
\* first five distinct ones came back
C10_Witness ==
    /\ pc = "parsed"
    /\ args.route_number = <<"5">>
    /\ Cardinality(Range(Emitted(args.text_content, args.route_number))) > 5
    /\ Len(ret.arrivals) = 5
    /\ ret.arrivals[1] = <<"n", "o", "w">>
    /\ ret.arrivals[2] = <<"2", " ", "m", "i", "n">>

\* positions of the delimiters of a line
Bars(line) == {i \in 1..Len(line) : line[i] = Bar}

\* the line has a first cell, between its first two delimiters, and that
\* cell, trimmed, is the route filter
HasFilterCell(line, route_number) ==
    /\ Cardinality(Bars(line)) >= 2
    /\ LET b1 == Least(Bars(line))
           b2 == Least(Bars(line) \ {b1})
       IN Strip(SubSeq(line, b1 + 1, b2 - 1)) = route_number

\* the lines whose first cell is the route filter, in their order
FilteredRows(lines, route_number) ==
    SelectSeq(lines, LAMBDA l : HasFilterCell(l, route_number))

\* C11: a line whose first cell, trimmed, is not the route filter emits
\* nothing, and so does a line with fewer than the five delimiters of a row
\* of four cells; what is returned is what the rows of the filtered route alone
\* give, in row order; when no row has the filter as its first cell the
\* arrivals are empty and next_arrival is None.
C11_OnlyFilteredRows ==
    pc = "parsed" =>
        /\ \A i \in 1..Len(args.text_content) :
               ~HasFilterCell(args.text_content[i], args.route_number)
                   => LineArrivals(args.text_content[i], args.route_number) = <<>>
        /\ \A i \in 1..Len(args.text_content) :
               Cardinality(Bars(args.text_content[i])) < 5
                   => LineArrivals(args.text_content[i], args.route_number) = <<>>
        /\ ret = parse_curlbus_realtime_text(
                     FilteredRows(args.text_content, args.route_number),
                     args.route_number)
        /\ FilteredRows(args.text_content, args.route_number) = <<>>
               => ret = [arrivals |-> <<>>, next_arrival |-> PyNone]

\* rows of route 5 around a row of route 6, filtered by 5: the values of the
\* two rows of route 5, in row order
C11_Witness ==
    /\ pc = "parsed"
    /\ args.route_number = <<"5">>
    /\ args.text_content = <<Row(<<"5">>, <<"1", "m", " ", "2", "m">>),
                             Row(<<"6">>, <<"9", "m">>),
                             Row(<<"5">>, <<"7", ":", "0", "5">>)>>
    /\ ret.arrivals = <<MinText(<<"1">>), MinText(<<"2">>), <<"7", ":", "0", "5">>>>

-----------------------------------------------------------------------------
(* Properties of get_last_thursday_or_week_before, checked under SpecDate *)

\* the number a string of decimal digits writes
RECURSIVE Number(_)
Number(s) ==
    IF s = <<>> THEN 0
    ELSE 10 * Number(SubSeq(s, 1, Len(s) - 1))
         + (CHOOSE k \in 0..9 : DigitChar(k) = s[Len(s)])

\* s is YYYY-MM-DD and names a day of the calendar
IsIsoDate(s) ==
    /\ Len(s) = 10
    /\ s[5] = "-" /\ s[8] = "-"
    /\ \A i \in (1..10) \ {5, 8} : IsDigit(s[i])
    /\ Number(SubSeq(s, 6, 7)) \in 1..12
    /\ Number(SubSeq(s, 9, 10)) \in
           1..DaysInMonth(Number(SubSeq(s, 1, 4)), Number(SubSeq(s, 6, 7)))

\* the ordinal of the day that YYYY-MM-DD names
ParsedDay(s) ==
    ToOrdinal([y |-> Number(SubSeq(s, 1, 4)),
               m |-> Number(SubSeq(s, 6, 7)),
               d |-> Number(SubSeq(s, 9, 10))])

\* C12: the string returned is YYYY-MM-DD and names a Thursday that lies 1
\* to 7 days before today: 7 days before when today is a Thursday, else the
\* one Thursday among the 6 days before today.
C12_LastThursday ==
    pc = "dated" =>
        /\ ret.t = "str"
        /\ IsIsoDate(ret.v)
        /\ Weekday(ParsedDay(ret.v)) = 3
        /\ args.today - ParsedDay(ret.v) \in 1..7
        /\ Weekday(args.today) = 3 <=> args.today - ParsedDay(ret.v) = 7

\* on Tuesday 2024-03-05 the Thursday 5 days earlier, in the month before,
\* after a February 29th
C12_Witness ==
    /\ pc = "dated"
    /\ args.today = ToOrdinal([y |-> 2024, m |-> 3, d |-> 5])
    /\ Weekday(args.today) = 1
    /\ ret = Str(<<"2", "0", "2", "4", "-", "0", "2", "-", "2", "9">>)

-----------------------------------------------------------------------------
(* Properties of extract_city_from_geocoding, checked under SpecCity *)

\* the directions payload gives a place identifier
HasPlaceId ==
    /\ args.google_routes.t = "dict"
    /\ args.geocodingResults # Missing
    /\ args.geocodingResults.t = "dict"
    /\ "origin" \in DOMAIN args.geocodingResults.v
    /\ args.geocodingResults.v["origin"].t = "dict"
    /\ "placeId" \in DOMAIN args.geocodingResults.v["origin"].v
    /\ args.geocodingResults.v["origin"].v["placeId"] \notin {PyNone, Str(<<>>)}

\* the components of the places answer, <<>> when there is no answer
Components ==
    IF args.place.http = "ok" /\ args.place.data.t = "dict"
           /\ "addressComponents" \in DOMAIN args.place.data.v
        THEN args.place.data.v["addressComponents"].v
        ELSE <<>>

\* positions of the components tagged "locality"
Localities ==
    {i \in 1..Len(Components) :
         /\ Components[i].t = "dict"
         /\ "types" \in DOMAIN Components[i].v
         /\ Locality \in Range(Components[i].v["types"].v)}

\* the display text of a component, the empty text when it has none
TextOf(component) ==
    IF "longText" \in DOMAIN component.v THEN component.v["longText"] ELSE Str(<<>>)

\* C13: extract_city_from_geocoding never lets an exception out; what it
\* returns other than None is the display text of the first component
\* tagged "locality"; it returns that text whenever the place identifier,
\* the key and the answer are there and no component before that one is
\* malformed; it returns None when no component is tagged locality, when
\* there is no place identifier, and when the request or its parsing fails.
C13_ResolverNeverRaises ==
    pc = "extracted" =>
        /\ ret.t # "raise"
        /\ ret # PyNone =>
               /\ HasPlaceId /\ Truthy(api_key) /\ Localities # {}
               /\ ret = TextOf(Components[Least(Localities)])
        /\ (/\ HasPlaceId /\ Truthy(api_key) /\ Localities # {}
            /\ \A i \in 1..Least(Localities) : Components[i].t = "dict")
               => ret = TextOf(Components[Least(Localities)])
        /\ (Localities = {} \/ ~HasPlaceId \/ args.place.http # "ok") => ret = PyNone

\* the second component is the first tagged locality, a second locality
\* follows: the text of the first came back
C13_Witness ==
    /\ pc = "extracted"
    /\ HasPlaceId
    /\ Cardinality(Localities) = 2
    /\ Least(Localities) = 2
    /\ ret = City

-----------------------------------------------------------------------------
(* Properties of the time cell branches, checked under SpecCell *)

\* p starts a maximal run of digits of s
RunStart(s, p) == IsDigit(s[p]) /\ (p = 1 \/ ~IsDigit(s[p - 1]))

\* the last position of the run of digits that starts at p
RunEnd(s, p) ==
    CHOOSE e \in p..Len(s) :
        /\ \A k \in p..e : IsDigit(s[k])
        /\ e = Len(s) \/ ~IsDigit(s[e + 1])

\* the first position after e that holds no space, Len(s) + 1 if none
PastSpaces(s, e) ==
    Least({q \in (e + 1)..(Len(s) + 1) : q = Len(s) + 1 \/ ~IsSpace(s[q])})

\* starts of the <N>m and <N> m tokens of s: a run of digits, spaces or
\* none, then "m"
MinuteRuns(s) ==
    {p \in 1..Len(s) :
         /\ RunStart(s, p)
         /\ PastSpaces(s, RunEnd(s, p)) <= Len(s)
         /\ s[PastSpaces(s, RunEnd(s, p))] = "m"}

\* starts of the <N>m tokens of s with "m" right after the digits
DirectRuns(s) ==
    {p \in 1..Len(s) :
         RunStart(s, p) /\ RunEnd(s, p) < Len(s) /\ s[RunEnd(s, p) + 1] = "m"}

\* "<N> min" for the runs of s that start at the positions of P, in order
RECURSIVE MinutesOf(_, _)
MinutesOf(s, P) ==
    IF P = {} THEN <<>>
    ELSE <<MinText(SubSeq(s, Least(P), RunEnd(s, Least(P))))>>
         \o MinutesOf(s, P \ {Least(P)})

\* v is H:MM or HH:MM
IsClock(v) ==
    /\ Len(v) \in {4, 5}
    /\ v[Len(v) - 2] = ":"
    /\ \A i \in (1..Len(v)) \ {Len(v) - 2} : IsDigit(v[i])

\* s holds an H:MM token
HasClock(s) == \E i \in 1..Len(s) : \E n \in {4, 5} :
    i + n - 1 <= Len(s) /\ IsClock(SubSeq(s, i, i + n - 1))

\* the now / minutes rules on one part of a cell split at its commas
PartRule(part) ==
    IF In(Now, Lower(part)) THEN <<Now>>
    ELSE MinutesOf(Lower(part), MinuteRuns(Lower(part)))

RECURSIVE PartsRule(_)
PartsRule(parts) ==
    IF parts = <<>> THEN <<>>
    ELSE PartRule(Strip(Head(parts))) \o PartsRule(Tail(parts))

\* what C14 states for a trimmed cell and the values emitted for it
OneBranch(cell, emitted) ==
    IF cell = <<>> \/ cell = <<Bar>> THEN emitted = <<>>
    ELSE IF In(Now, Lower(cell))
        THEN emitted = <<Now>> \o (IF DirectRuns(cell) = {} THEN <<>>
                                   ELSE MinutesOf(cell, {Least(DirectRuns(cell))}))
    ELSE IF MinuteRuns(Lower(cell)) # {}
        THEN emitted = MinutesOf(Lower(cell), MinuteRuns(Lower(cell)))
    ELSE IF HasClock(cell)
        THEN /\ emitted # <<>>
             /\ \A i \in 1..Len(emitted) : IsClock(emitted[i]) /\ In(emitted[i], cell)
    ELSE IF In(<<",">>, cell) THEN emitted = PartsRule(SplitComma(cell))
    ELSE emitted = <<>>

\* C14: for the time cell of a row of the filtered route exactly one branch
\* fires, the first that applies: an empty cell emits nothing; a cell with
\* "now" in any case emits "now" and, when it holds an <N>m token, "<N> min"
\* for the first; else a cell with minutes tokens emits "<N> min" for each;
\* else a cell with H:MM tokens emits those; else a cell with commas emits
\* what the now and minutes rules give for its trimmed parts; else nothing.
C14_OneBranchPerCell ==
    pc = "scanned" => OneBranch(Strip(args.time_cell), ret)

\* a cell with a minutes token and a clock token emitted the minutes only
C14_Witness ==
    /\ pc = "scanned"
    /\ args.time_cell = <<"7", ":", "0", "5", " ", "1", "m">>
    /\ ret = <<MinText(<<"1">>)>>

====
